---- MODULE Spec2Model ----
(***************************************************************************)
(* Restaurant Name Generator (app.py): the Streamlit script, its LangChain *)
(* pipeline of five model calls, and the text helpers applied to the       *)
(* model's outputs.                                                        *)
(*                                                                         *)
(* A text is a sequence of characters; a character is a one-token string.  *)
(* Characters outside ASCII are written by name: "u2022" (bullet),         *)
(* "u2013"/"u2014" (en/em dash), "ldq"/"rdq"/"lsq"/"rsq" (curly quotes),   *)
(* "dq" (straight double quote), "sq" (apostrophe), "bt" (backtick).       *)
(***************************************************************************)
EXTENDS Integers, Sequences, FiniteSets, TLC

VARIABLES
    environ,       \* os.getenv("OPENAI_API_KEY"): a text, or None when unset
    key_input,     \* sidebar text_input
    cuisine,       \* sidebar selectbox
    bullet_style,  \* sidebar selectbox "Menu style"
    export_fmt,    \* sidebar selectbox "Export format"
    run_btn,       \* value of the Generate button in the current script run
    pc,            \* position of the script run
    res,           \* the dict threaded through full_chain
    calls,         \* model calls issued in the current script run, in order
    locals,        \* rest_name, items, drinks, slogan, description (l.258-264)
    screen,        \* widgets written to the main panel in the current run
    ntext,         \* normalize_lines: the argument
    npc,           \* normalize_lines: position of the round trip
    nout,          \* normalize_lines(ntext)
    nagain         \* normalize_lines("\n".join(nout))

vars == <<environ, key_input, cuisine, bullet_style, export_fmt, run_btn, pc,
          res, calls, locals, screen, ntext, npc, nout, nagain>>

appVars == <<environ, key_input, cuisine, bullet_style, export_fmt, run_btn,
             pc, res, calls, locals, screen>>

normVars == <<ntext, npc, nout, nagain>>

-----------------------------------------------------------------------------
(* Python values and str methods *)

\* Python's None, kept apart from every text
None == <<"None">>

\* truth value of a str-or-None
Truthy(v) == v # None /\ v # <<>>

\* str.isspace() characters of the alphabets used here
WhiteSpace == {" ", "\t", "\n"}

\* line boundaries of str.splitlines() among the characters used here
LineBreaks == {"\n"}

Digits == {"0", "1", "2", "3", "4", "5", "6", "7", "8", "9"}

RECURSIVE LStripChars(_, _)
LStripChars(s, chars) ==
    IF s # <<>> /\ Head(s) \in chars THEN LStripChars(Tail(s), chars) ELSE s

RECURSIVE RStripChars(_, _)
RStripChars(s, chars) ==
    IF s # <<>> /\ s[Len(s)] \in chars
    THEN RStripChars(SubSeq(s, 1, Len(s) - 1), chars)
    ELSE s

\* s.strip(chars)
StripChars(s, chars) == RStripChars(LStripChars(s, chars), chars)

\* s.strip()
Strip(s) == StripChars(s, WhiteSpace)

\* text.splitlines(): a trailing line break opens no further line
RECURSIVE SplitLinesFrom(_, _)
SplitLinesFrom(s, cur) ==
    IF s = <<>> THEN (IF cur = <<>> THEN <<>> ELSE <<cur>>)
    ELSE IF Head(s) \in LineBreaks THEN <<cur>> \o SplitLinesFrom(Tail(s), <<>>)
    ELSE SplitLinesFrom(Tail(s), Append(cur, Head(s)))

SplitLines(s) == SplitLinesFrom(s, <<>>)

\* sep.join(parts)
RECURSIVE Join(_, _)
Join(parts, sep) ==
    IF parts = <<>> THEN <<>>
    ELSE IF Len(parts) = 1 THEN parts[1]
    ELSE parts[1] \o sep \o Join(Tail(parts), sep)

\* s.replace(old, new) for a single character old
Replace(s, old, new) == [i \in 1..Len(s) |-> IF s[i] = old THEN new ELSE s[i]]

\* list(dict.fromkeys(xs)): first occurrences, in first-seen order
RECURSIVE FromKeys(_, _)
FromKeys(xs, seen) ==
    IF xs = <<>> THEN <<>>
    ELSE IF Head(xs) \in seen THEN FromKeys(Tail(xs), seen)
    ELSE <<Head(xs)>> \o FromKeys(Tail(xs), seen \cup {Head(xs)})

\* xs[:n]
Take(xs, n) == SubSeq(xs, 1, IF Len(xs) < n THEN Len(xs) ELSE n)

-----------------------------------------------------------------------------
(* Helpers: LINE_CLEAN_RE, normalize_lines, clean_restaurant_name *)

\* [•\-\*–—]
BulletGlyphs == {"u2022", "-", "*", "u2013", "u2014"}

\* [.)\-•]
NumberSuffix == {".", ")", "-", "u2022"}

QUOTE_CLEAN_CHARS == {"dq", "sq", "ldq", "rdq", "lsq", "rsq", "bt"}

MAX_MENU_ITEMS == 6

\* LINE_CLEAN_RE.sub("", s, count=1): the pattern is anchored at the start and
\* every part of it is optional, so it matches once, greedily, a prefix of s:
\* \s*, then a run of bullet glyphs or digits with any run of suffix
\* characters (possibly none), then \s*.
LineCleanSub(s) ==
    LET a == LStripChars(s, WhiteSpace)
        b == IF a # <<>> /\ Head(a) \in BulletGlyphs
             THEN LStripChars(a, BulletGlyphs)
             ELSE IF a # <<>> /\ Head(a) \in Digits
             THEN LStripChars(LStripChars(a, Digits), NumberSuffix)
             ELSE a
    IN  LStripChars(b, WhiteSpace)

\* the for loop of normalize_lines over text.splitlines()
RECURSIVE CleanLines(_)
CleanLines(raw_lines) ==
    IF raw_lines = <<>> THEN <<>>
    ELSE LET stripped == Strip(Head(raw_lines))
             normalized == Strip(LineCleanSub(stripped))
         IN  IF stripped = <<>> THEN CleanLines(Tail(raw_lines))
             ELSE IF normalized # <<>>
             THEN <<normalized>> \o CleanLines(Tail(raw_lines))
             ELSE CleanLines(Tail(raw_lines))

\* normalize_lines without the dict.fromkeys step
normalize_lines_keeping_repeats(text) ==
    IF ~Truthy(text) THEN <<>>
    ELSE Take(CleanLines(SplitLines(text)), MAX_MENU_ITEMS)

normalize_lines(text) ==
    IF ~Truthy(text) THEN <<>>
    ELSE Take(FromKeys(CleanLines(SplitLines(text)), {}), MAX_MENU_ITEMS)

clean_restaurant_name(name) ==
    IF ~Truthy(name) THEN <<>>
    ELSE Strip(StripChars(Strip(name), QUOTE_CLEAN_CHARS))

-----------------------------------------------------------------------------
(* Formatting: to_display_list, to_export_v2, the download file name *)

\* a or b
Or(a, b) == IF Truthy(a) THEN a ELSE b

\* d.get(k, default)
Get(d, k, default) == IF k \in DOMAIN d THEN d[k] ELSE default

DigitChar(i) == <<"1", "2", "3", "4", "5", "6", "7", "8", "9">>[i]

\* [f"- {x}" for x in items]
Bulleted(items) == [i \in 1..Len(items) |-> <<"-", " ">> \o items[i]]

to_display_list(items, style) ==
    IF style = "Bullets" THEN Join(Bulleted(items), <<"\n">>)
    ELSE IF style = "Numbered"
    THEN Join([i \in 1..Len(items) |-> <<DigitChar(i), ".", " ">> \o items[i]],
              <<"\n">>)
    ELSE Join(items, <<"\n">>)

MenuItemsLabel == <<"M", "e", "n", "u", " ", "I", "t", "e", "m", "s">>

DrinksLabel == <<"D", "r", "i", "n", "k", "s">>

NonePlaceholder == <<"(", "n", "o", "n", "e", ")">>

to_export_v2(name, items, fmt, slogan, description, drinks) ==
    IF fmt = "Markdown"
    THEN Strip(Join(
             << <<"#", "#", " ">> \o name >>
             \o (IF slogan # <<>> THEN << <<"*">> \o slogan \o <<"*">> >> ELSE <<>>)
             \o (IF description # <<>> THEN <<description>> ELSE <<>>)
             \o << <<"\n", "#", "#", "#", " ">> \o MenuItemsLabel >>
             \o << Join(Bulleted(items), <<"\n">>) >>
             \o << <<"\n", "#", "#", "#", " ">> \o DrinksLabel >>
             \o (IF drinks # <<>>
                 THEN << Join(Bulleted(drinks), <<"\n">>) >>
                 ELSE << <<"_">> \o NonePlaceholder \o <<"_">> >>),
             <<"\n", "\n">>))
    ELSE Strip(Join(
             <<name>>
             \o (IF slogan # <<>> THEN <<slogan>> ELSE <<>>)
             \o (IF description # <<>> THEN <<description>> ELSE <<>>)
             \o << <<"\n">> \o MenuItemsLabel >>
             \o items
             \o << <<"\n">> \o DrinksLabel >>
             \o (IF drinks # <<>> THEN drinks ELSE <<NonePlaceholder>>),
             <<"\n">>))

\* f"{rest_name.replace(' ','_')}.{'md' if export_fmt=='Markdown' else 'txt'}"
file_name(rest_name, fmt) ==
    Replace(rest_name, " ", "_")
    \o (IF fmt = "Markdown" THEN <<".", "m", "d">> ELSE <<".", "t", "x", "t">>)

-----------------------------------------------------------------------------
(* The script: sidebar, credential, full_chain, main panel *)

\* the cuisines the model selects among, out of the 14 of CUISINES
CuisineChoices == {"Mexican", "Thai"}

BulletStyles == {"Bullets", "Numbered", "Plain lines"}

ExportFormats == {"Text", "Markdown"}

\* values of the environment variable: unset, empty, blank, set
EnvValues == {None, <<>>, <<" ">>, <<"e">>, <<"e", "\n">>}

\* what the user may type into the key field
KeyInputs == {<<>>, <<" ">>, <<"k">>, <<" ", "k", " ">>}

\* texts the model may return for each prompt
NameOutputs ==
    { <<>>,
      <<"A">>,
      <<" ", "dq", "A", " ", "B", "dq", " ", "\n">>,
      <<"dq", " ", "sq", "A", "sq", " ", "dq">>,
      <<"ldq", "rdq">> }

MenuOutputs ==
    { <<>>,
      <<" ", "\n", " ">>,
      <<"x">>,
      <<"-", " ", "x", "\n", "-", " ", "x", "\n", "2", ".", " ", "y", "\n",
        "\n", "*", " ", "z">> }

DrinkOutputs ==
    { <<>>,
      <<"\n">>,
      <<"1", ")", " ", "t", "\n", "7", "u", "p">> }

SloganOutputs == { <<>>, <<" ", "s", "\n">> }

DescriptionOutputs == { <<>>, <<"d", ".">> }

Templates == <<"name", "menu", "drinks", "slogan", "description">>

Outputs(template) ==
    CASE template = "name"        -> NameOutputs
      [] template = "menu"        -> MenuOutputs
      [] template = "drinks"      -> DrinkOutputs
      [] template = "slogan"      -> SloganOutputs
      [] template = "description" -> DescriptionOutputs

\* the key each .assign of full_chain adds to the dict
OutputKey(template) ==
    CASE template = "name"        -> "restaurant_name"
      [] template = "menu"        -> "menu_items"
      [] template = "drinks"      -> "drink_items"
      [] template = "slogan"      -> "slogan"
      [] template = "description" -> "description"

\* a chain that runs the drinks step ahead of the menu step
NextStepSwapped(step) ==
    CASE step = "name"        -> "drinks"
      [] step = "drinks"      -> "menu"
      [] step = "menu"        -> "slogan"
      [] step = "slogan"      -> "description"
      [] step = "description" -> "validate"

\* full_chain: the steps of the sequence, then the code after chain.invoke
NextStep(step) ==
    CASE step = "name"        -> "menu"
      [] step = "menu"        -> "drinks"
      [] step = "drinks"      -> "slogan"
      [] step = "slogan"      -> "description"
      [] step = "description" -> "validate"

\* OPENAI_API_KEY = (os.getenv("OPENAI_API_KEY") or "").strip() or None
OPENAI_API_KEY == Or(Strip(Or(environ, <<>>)), None)

\* a credential taken from the key field as typed
effective_key_untrimmed == Or(key_input, OPENAI_API_KEY)

\* effective_key = key_input.strip() or OPENAI_API_KEY
effective_key == Or(Strip(key_input), OPENAI_API_KEY)

\* a model call has been issued and has not returned
Pending == calls # <<>> /\ calls[Len(calls)].status = "pending"

\* Streamlit runs the whole script once per interaction. An interaction is
\* taken when no run is in progress; the temperature slider only selects the
\* cached client and is left out.
\* The script run that follows a sidebar change: the button reads False.
RerunWithoutClick ==
    /\ run_btn' = FALSE
    /\ pc' = "idle"
    /\ res' = <<>>
    /\ calls' = <<>>
    /\ locals' = <<>>
    /\ screen' = << [kind |-> "info"] >>

TypeKey ==
    /\ pc = "idle"
    /\ \E k \in KeyInputs \ {key_input} : key_input' = k
    /\ RerunWithoutClick
    /\ UNCHANGED <<environ, cuisine, bullet_style, export_fmt>>
    /\ UNCHANGED normVars

SelectCuisine ==
    /\ pc = "idle"
    /\ \E c \in CuisineChoices \ {cuisine} : cuisine' = c
    /\ RerunWithoutClick
    /\ UNCHANGED <<environ, key_input, bullet_style, export_fmt>>
    /\ UNCHANGED normVars

SelectMenuStyle ==
    /\ pc = "idle"
    /\ \E b \in BulletStyles \ {bullet_style} : bullet_style' = b
    /\ RerunWithoutClick
    /\ UNCHANGED <<environ, key_input, cuisine, export_fmt>>
    /\ UNCHANGED normVars

SelectExportFormat ==
    /\ pc = "idle"
    /\ \E f \in ExportFormats \ {export_fmt} : export_fmt' = f
    /\ RerunWithoutClick
    /\ UNCHANGED <<environ, key_input, cuisine, bullet_style>>
    /\ UNCHANGED normVars

\* the script run that follows a click on "Generate Name & Menu", up to
\* chain.invoke({"cuisine": cuisine})
ClickGenerate ==
    /\ pc = "idle"
    /\ run_btn' = TRUE
    /\ calls' = <<>>
    /\ locals' = <<>>
    /\ IF ~Truthy(effective_key)
       THEN /\ screen' = << [kind |-> "error", what |-> "missing_key"] >>
            /\ pc' = "idle"
            /\ res' = <<>>
       ELSE /\ screen' = <<>>
            /\ pc' = "name"
            /\ res' = ("cuisine" :> cuisine)
    /\ UNCHANGED <<environ, key_input, cuisine, bullet_style, export_fmt>>
    /\ UNCHANGED normVars

\* one request to the model
Call(template, params) ==
    [template |-> template, params |-> params, api_key |-> effective_key,
     status |-> "pending", output |-> <<>>]

\* name_chain = name_prompt | llm | parser
InvokeName ==
    /\ pc = "name"
    /\ ~Pending
    /\ calls' = Append(calls, Call("name", [cuisine |-> res["cuisine"]]))
    /\ UNCHANGED <<environ, key_input, cuisine, bullet_style, export_fmt,
                   run_btn, pc, res, locals, screen>>
    /\ UNCHANGED normVars

\* build_menu
InvokeMenu ==
    /\ pc = "menu"
    /\ ~Pending
    /\ calls' = Append(calls, Call("menu",
                  [cuisine |-> Get(res, "cuisine", <<>>),
                   restaurant_name |-> Get(res, "restaurant_name", <<>>)]))
    /\ UNCHANGED <<environ, key_input, cuisine, bullet_style, export_fmt,
                   run_btn, pc, res, locals, screen>>
    /\ UNCHANGED normVars

\* build_drinks
InvokeDrinks ==
    /\ pc = "drinks"
    /\ ~Pending
    /\ calls' = Append(calls, Call("drinks",
                  [cuisine |-> Get(res, "cuisine", <<>>),
                   restaurant_name |-> Get(res, "restaurant_name", <<>>)]))
    /\ UNCHANGED <<environ, key_input, cuisine, bullet_style, export_fmt,
                   run_btn, pc, res, locals, screen>>
    /\ UNCHANGED normVars

\* slogan_chain = slogan_prompt | llm | parser
InvokeSlogan ==
    /\ pc = "slogan"
    /\ ~Pending
    /\ calls' = Append(calls, Call("slogan",
                  [cuisine |-> res["cuisine"],
                   restaurant_name |-> res["restaurant_name"]]))
    /\ UNCHANGED <<environ, key_input, cuisine, bullet_style, export_fmt,
                   run_btn, pc, res, locals, screen>>
    /\ UNCHANGED normVars

\* description_chain = description_prompt | llm | parser
InvokeDescription ==
    /\ pc = "description"
    /\ ~Pending
    /\ calls' = Append(calls, Call("description",
                  [cuisine |-> res["cuisine"],
                   restaurant_name |-> res["restaurant_name"]]))
    /\ UNCHANGED <<environ, key_input, cuisine, bullet_style, export_fmt,
                   run_btn, pc, res, locals, screen>>
    /\ UNCHANGED normVars

\* the model answers: .assign adds the parsed text to the dict
CallReturns ==
    /\ Pending
    /\ \E out \in Outputs(pc) :
        /\ calls' = [calls EXCEPT ![Len(calls)].status = "ok",
                                  ![Len(calls)].output = out]
        /\ res' = (OutputKey(pc) :> out) @@ res
    /\ pc' = NextStep(pc)
    /\ UNCHANGED <<environ, key_input, cuisine, bullet_style, export_fmt,
                   run_btn, locals, screen>>
    /\ UNCHANGED normVars

\* a failed call the chain goes on from, with an empty text in its place
CallFailsSwallowed ==
    /\ Pending
    /\ calls' = [calls EXCEPT ![Len(calls)].status = "failed"]
    /\ res' = (OutputKey(pc) :> <<>>) @@ res
    /\ pc' = NextStep(pc)
    /\ UNCHANGED <<environ, key_input, cuisine, bullet_style, export_fmt,
                   run_btn, locals, screen>>
    /\ UNCHANGED normVars

\* a failed call that is issued again
CallFailsRetried ==
    /\ Pending
    /\ calls' = [calls EXCEPT ![Len(calls)].status = "failed"]
    /\ UNCHANGED <<environ, key_input, cuisine, bullet_style, export_fmt,
                   run_btn, pc, res, locals, screen>>
    /\ UNCHANGED normVars

\* the model call raises: chain.invoke raises, except Exception -> st.exception
CallFails ==
    /\ Pending
    /\ calls' = [calls EXCEPT ![Len(calls)].status = "failed"]
    /\ res' = <<>>
    /\ pc' = "idle"
    /\ screen' = << [kind |-> "exception", what |-> "upstream_failure"] >>
    /\ UNCHANGED <<environ, key_input, cuisine, bullet_style, export_fmt,
                   run_btn, locals>>
    /\ UNCHANGED normVars

\* validation that asks for drinks as well
ValidationErrorStrict(rest_name, items, drinks, slogan, description) ==
    IF rest_name = <<>> THEN "empty_name"
    ELSE IF items = <<>> THEN "empty_menu"
    ELSE IF drinks = <<>> \/ slogan = <<>> \/ description = <<>>
    THEN "empty_extra"
    ELSE "none"

\* validation that lets an empty menu through
ValidationErrorNameOnly(rest_name, items, drinks, slogan, description) ==
    IF rest_name = <<>> THEN "empty_name" ELSE "none"

\* if not rest_name: raise ...; if not items: raise ...
ValidationError(rest_name, items, drinks, slogan, description) ==
    IF rest_name = <<>> THEN "empty_name"
    ELSE IF items = <<>> THEN "empty_menu"
    ELSE "none"

\* the widgets of a successful run, in the order they are written
ResultWidgets(rest_name, items, drinks, slogan, description) ==
    LET content == to_export_v2(rest_name, items, export_fmt, slogan,
                                description, drinks)
    IN  << [kind |-> "success"],
           [kind |-> "markdown", body |-> <<"#", "#", " ">> \o rest_name] >>
        \o (IF slogan # <<>>
            THEN << [kind |-> "markdown", body |-> <<"*">> \o slogan \o <<"*">>] >>
            ELSE <<>>)
        \o (IF description # <<>>
            THEN << [kind |-> "markdown", body |-> description] >>
            ELSE <<>>)
        \o << [kind |-> "markdown", body |-> <<"#", "#", "#", " ">> \o MenuItemsLabel],
              [kind |-> "markdown", body |-> to_display_list(items, bullet_style)],
              [kind |-> "markdown", body |-> <<"#", "#", "#", " ">> \o DrinksLabel] >>
        \o (IF drinks # <<>>
            THEN << [kind |-> "markdown", body |-> to_display_list(drinks, bullet_style)] >>
            ELSE << [kind |-> "caption", what |-> "no_drinks"] >>)
        \o << [kind |-> "caption", what |-> "copy_export"],
              [kind |-> "text_area", value |-> content],
              [kind |-> "download_button", data |-> content,
               file_name |-> file_name(rest_name, export_fmt),
               mime |-> IF export_fmt = "Markdown" THEN "text/markdown"
                        ELSE "text/plain"] >>

\* the code after chain.invoke returned: cleaning, validation, rendering
Render ==
    /\ pc = "validate"
    /\ LET rest_name == clean_restaurant_name(Get(res, "restaurant_name", None))
           items == normalize_lines(Get(res, "menu_items", None))
           drinks == normalize_lines(Get(res, "drink_items", None))
           slogan == Strip(Or(Get(res, "slogan", None), <<>>))
           description == Strip(Or(Get(res, "description", None), <<>>))
           err == ValidationError(rest_name, items, drinks, slogan, description)
       IN  /\ locals' = [rest_name |-> rest_name, items |-> items,
                         drinks |-> drinks, slogan |-> slogan,
                         description |-> description]
           /\ screen' = IF err # "none"
                        THEN << [kind |-> "exception", what |-> err] >>
                        ELSE ResultWidgets(rest_name, items, drinks, slogan,
                                           description)
    /\ pc' = "idle"
    /\ UNCHANGED <<environ, key_input, cuisine, bullet_style, export_fmt,
                   run_btn, res, calls>>
    /\ UNCHANGED normVars

\* the first script run of a session: nothing typed, index=2 selects Mexican
Init ==
    /\ environ \in EnvValues
    /\ key_input = <<>>
    /\ cuisine = "Mexican"
    /\ bullet_style = "Bullets"
    /\ export_fmt = "Text"
    /\ run_btn = FALSE
    /\ pc = "idle"
    /\ res = <<>>
    /\ calls = <<>>
    /\ locals = <<>>
    /\ screen = << [kind |-> "info"] >>
    /\ ntext = <<>>
    /\ npc = "off"
    /\ nout = <<>>
    /\ nagain = <<>>

Next ==
    \/ TypeKey
    \/ SelectCuisine
    \/ SelectMenuStyle
    \/ SelectExportFormat
    \/ ClickGenerate
    \/ InvokeName
    \/ InvokeMenu
    \/ InvokeDrinks
    \/ InvokeSlogan
    \/ InvokeDescription
    \/ CallReturns
    \/ CallFails
    \/ Render

Spec == Init /\ [][Next]_vars

-----------------------------------------------------------------------------
(* normalize_lines on its own: arguments and the round trip through join *)

MaxLen == 5

MaxLines == 7

NormChars == {"a", "b", "1", "-", ".", " ", "\n"}

\* every text of at most MaxLen characters
ShortTexts == UNION {[1..k -> NormChars] : k \in 0..MaxLen}

LinePool ==
    << <<"a">>, <<"b">>, <<"c">>, <<"a", " ", "b">>, <<"7", "u", "p">>,
       <<"e">>, <<"f">>, <<"g">>, <<"h">> >>

MarkerStyles == {"plain", "bullets", "numbered", "stars", "paren", "spaced"}

LineMarker(style, i) ==
    CASE style = "plain"    -> <<>>
      [] style = "bullets"  -> <<"-", " ">>
      [] style = "numbered" -> <<DigitChar(i), ".", " ">>
      [] style = "stars"    -> <<"*", "*", " ">>
      [] style = "paren"    -> <<DigitChar(i), ")">>
      [] style = "spaced"   -> <<" ", "u2022", "\t">>

\* line i of a long text: the style's marker and pool entry start + i*step
LongLine(i, start, step, style) ==
    LineMarker(style, i)
    \o LinePool[((start + i * step) % Len(LinePool)) + 1]
    \o (IF style = "spaced" THEN <<" ", "\n">> ELSE <<>>)

\* n lines, after a second copy of line 1 when echo is set
LongText(n, start, step, style, echo) ==
    Join((IF echo THEN <<LongLine(1, start, step, style)>> ELSE <<>>)
         \o [i \in 1..n |-> LongLine(i, start, step, style)],
         <<"\n">>)

LongTexts ==
    {LongText(n, start, step, style, echo) :
        n \in 1..MaxLines, start \in 0..2, step \in 0..4,
        style \in MarkerStyles, echo \in BOOLEAN}

NormInputs == {None} \cup ShortTexts \cup LongTexts

\* result = normalize_lines(text)
Normalize ==
    /\ npc = "input"
    /\ nout' = normalize_lines(ntext)
    /\ npc' = "normalized"
    /\ UNCHANGED <<ntext, nagain>>
    /\ UNCHANGED appVars

\* normalize_lines("\n".join(result))
Renormalize ==
    /\ npc = "normalized"
    /\ nagain' = normalize_lines(Join(nout, <<"\n">>))
    /\ npc' = "renormalized"
    /\ UNCHANGED <<ntext, nout>>
    /\ UNCHANGED appVars

AppAtRest ==
    /\ environ = None
    /\ key_input = <<>>
    /\ cuisine = "Mexican"
    /\ bullet_style = "Bullets"
    /\ export_fmt = "Text"
    /\ run_btn = FALSE
    /\ pc = "idle"
    /\ res = <<>>
    /\ calls = <<>>
    /\ locals = <<>>
    /\ screen = <<>>

InitNorm ==
    /\ ntext \in NormInputs
    /\ npc = "input"
    /\ nout = <<>>
    /\ nagain = <<>>
    /\ AppAtRest

NextNorm == Normalize \/ Renormalize

SpecNorm == InitNorm /\ [][NextNorm]_vars

-----------------------------------------------------------------------------
(* Properties of normalize_lines *)

NoDuplicates(xs) == \A i, j \in 1..Len(xs) : xs[i] = xs[j] => i = j

\* C7: for every raw text (empty and absent included) the output of
\* normalize_lines has at most 6 entries, no two equal entries and no
\* empty-string entry.
C7_Bounded ==
    npc # "input" =>
        /\ Len(nout) <= 6
        /\ NoDuplicates(nout)
        /\ \A i \in 1..Len(nout) : nout[i] # <<>>

\* C7 witness: an input of more than 6 distinct cleaned lines, with a repeated
\* line, was normalized to exactly 6 entries.
C7_Witness ==
    /\ npc = "normalized"
    /\ Truthy(ntext)
    /\ Len(FromKeys(CleanLines(SplitLines(ntext)), {})) > 6
    /\ ~NoDuplicates(CleanLines(SplitLines(ntext)))
    /\ Len(nout) = 6

\* the list marker as the specification words it: a run of bullet glyphs, or
\* digits followed by at least one of . ) - bullet
SpecMarkerStrip(s) ==
    IF s # <<>> /\ Head(s) \in BulletGlyphs THEN LStripChars(s, BulletGlyphs)
    ELSE IF s # <<>> /\ Head(s) \in Digits
            /\ LStripChars(s, Digits) # <<>>
            /\ Head(LStripChars(s, Digits)) \in NumberSuffix
    THEN LStripChars(LStripChars(s, Digits), NumberSuffix)
    ELSE s

RECURSIVE SpecCleanLines(_)
SpecCleanLines(raw_lines) ==
    IF raw_lines = <<>> THEN <<>>
    ELSE LET stripped == Strip(Head(raw_lines))
             normalized == Strip(SpecMarkerStrip(stripped))
         IN  IF stripped = <<>> \/ normalized = <<>>
             THEN SpecCleanLines(Tail(raw_lines))
             ELSE <<normalized>> \o SpecCleanLines(Tail(raw_lines))

SpecNormalize(text) ==
    IF ~Truthy(text) THEN <<>>
    ELSE Take(FromKeys(SpecCleanLines(SplitLines(text)), {}), 6)

\* C8: normalize_lines returns the first 6 distinct entries, in first-seen
\* order, of the lines trimmed, stripped once of a list marker (a run of bullet
\* glyphs, or digits followed by . ) - or a bullet) and trimmed again; leading
\* digits not followed by one of those characters are left in place.
C8_AsSpecified ==
    npc # "input" => nout = SpecNormalize(ntext)

SpecBeginsWithMarker(s) == SpecMarkerStrip(s) # s

\* C9: when no line of x, after one marker strip, begins with a further list
\* marker (as the specification defines a marker), normalizing the
\* newline-join of normalize_lines(x) gives normalize_lines(x) again.
C9_Idempotent ==
    (/\ npc = "renormalized"
     /\ LET ls == CleanLines(SplitLines(IF Truthy(ntext) THEN ntext ELSE <<>>))
        IN  \A i \in 1..Len(ls) : ~SpecBeginsWithMarker(ls[i]))
    => nagain = nout

-----------------------------------------------------------------------------
(* Properties of a generation attempt *)

\* position of the template's call in calls, 0 when it was not issued
CallIndex(template) ==
    IF \E i \in 1..Len(calls) : calls[i].template = template
    THEN CHOOSE i \in 1..Len(calls) : calls[i].template = template
    ELSE 0

Issued(template) == CallIndex(template) # 0

Succeeded(template) ==
    Issued(template) /\ calls[CallIndex(template)].status = "ok"

Failed(template) ==
    Issued(template) /\ calls[CallIndex(template)].status = "failed"

\* the text a successful call returned
OutputOf(template) == calls[CallIndex(template)].output

AllFiveSucceeded == \A i \in 1..5 : Succeeded(Templates[i])

\* the script run that made the calls has ended
AttemptEnded == pc = "idle" /\ run_btn /\ calls # <<>>

Shows(kind) == \E i \in 1..Len(screen) : screen[i].kind = kind

\* an on-screen result, the export text or the download
ShowsResult ==
    Shows("success") \/ Shows("markdown") \/ Shows("text_area")
    \/ Shows("download_button")

ShowsOnlyException(what) ==
    screen = << [kind |-> "exception", what |-> what] >>

Downstream == {"menu", "drinks", "slogan", "description"}

\* C1: a downstream call (menu, drinks, slogan, description) is issued only
\* after the name call has returned successfully; when the name call fails it
\* is the only call of the attempt.
C1_NameFirst ==
    /\ \A i \in 1..Len(calls) :
          calls[i].template \in Downstream =>
              /\ i > 1
              /\ calls[1].template = "name"
              /\ calls[1].status = "ok"
    /\ Failed("name") => Len(calls) = 1

\* C1 witness: the name call failed and the attempt is over.
C1_Witness == AttemptEnded /\ Failed("name") /\ Len(calls) = 1

\* C2: a failed call ends the attempt at once: it is the last call, it is not
\* issued again, and nothing but the exception is shown (no on-screen result,
\* export text or download from the calls that had succeeded).
C2_FailFast ==
    \A i \in 1..Len(calls) :
        calls[i].status = "failed" =>
            /\ i = Len(calls)
            /\ pc = "idle"
            /\ \A j \in 1..Len(calls) :
                  calls[j].template = calls[i].template => j = i
            /\ ~ShowsResult
            /\ ShowsOnlyException("upstream_failure")

\* C2 witness: the description call failed after the four before it succeeded.
C2_Witness ==
    /\ AttemptEnded
    /\ Failed("description")
    /\ \A t \in {"name", "menu", "drinks", "slogan"} : Succeeded(t)
    /\ clean_restaurant_name(OutputOf("name")) # <<>>
    /\ normalize_lines(OutputOf("menu")) # <<>>

\* C3 as claimed: whenever the menu output normalizes to zero items (all five
\* calls having succeeded), the attempt fails with the empty-menu error and
\* produces no result.
C3_Claimed ==
    (AttemptEnded /\ AllFiveSucceeded
     /\ normalize_lines(OutputOf("menu")) = <<>>)
    => (ShowsOnlyException("empty_menu") /\ ~ShowsResult)

\* C3 amended: when all five calls succeeded and the menu output normalizes to
\* zero items, the attempt produces no result; it fails with the empty-menu
\* error when the cleaned name is non-empty, and with the empty-name error,
\* which is checked first, when the cleaned name is empty too.
C3_EmptyMenu ==
    (AttemptEnded /\ AllFiveSucceeded
     /\ normalize_lines(OutputOf("menu")) = <<>>)
    => /\ ~ShowsResult
       /\ clean_restaurant_name(OutputOf("name")) # <<>>
             => ShowsOnlyException("empty_menu")
       /\ clean_restaurant_name(OutputOf("name")) = <<>>
             => ShowsOnlyException("empty_name")

\* C3 witness: name, drinks, slogan and description are all fine and the menu
\* text is blank.
C3_Witness ==
    /\ AttemptEnded
    /\ AllFiveSucceeded
    /\ OutputOf("menu") # <<>>
    /\ normalize_lines(OutputOf("menu")) = <<>>
    /\ clean_restaurant_name(OutputOf("name")) # <<>>
    /\ normalize_lines(OutputOf("drinks")) # <<>>
    /\ Strip(OutputOf("slogan")) # <<>>
    /\ Strip(OutputOf("description")) # <<>>

\* C4: when all five calls succeeded, the cleaned name is non-empty and the
\* normalized menu is non-empty, the attempt succeeds and shows the result with
\* its export text and download, whatever of drinks, slogan and description is
\* empty; an empty one is carried as an empty value.
C4_EmptyExtrasTolerated ==
    (/\ AttemptEnded
     /\ AllFiveSucceeded
     /\ clean_restaurant_name(OutputOf("name")) # <<>>
     /\ normalize_lines(OutputOf("menu")) # <<>>)
    => /\ Shows("success")
       /\ Shows("text_area")
       /\ Shows("download_button")
       /\ ~Shows("exception")
       /\ locals.drinks = normalize_lines(OutputOf("drinks"))
       /\ locals.slogan = Strip(OutputOf("slogan"))
       /\ locals.description = Strip(OutputOf("description"))

\* C4 witness: a successful attempt whose drinks, slogan and description are
\* all empty.
C4_Witness ==
    /\ AttemptEnded
    /\ AllFiveSucceeded
    /\ Shows("download_button")
    /\ locals.drinks = <<>>
    /\ locals.slogan = <<>>
    /\ locals.description = <<>>

\* the credential: the trimmed entry of the key field, else the trimmed value
\* of the environment variable
HasCredential ==
    Strip(key_input) # <<>> \/ (environ # None /\ Strip(environ) # <<>>)

\* C5: a model call is issued only in a script run started by the Generate
\* button with a non-empty credential, which every call carries; a click
\* without a credential shows the missing-credential error and issues no call.
C5_CredentialGuard ==
    /\ calls # <<>> =>
          /\ run_btn
          /\ HasCredential
          /\ \A i \in 1..Len(calls) :
                /\ calls[i].api_key # None
                /\ calls[i].api_key # <<>>
                /\ calls[i].api_key = Strip(calls[i].api_key)
    /\ (run_btn /\ ~HasCredential) =>
          /\ calls = <<>>
          /\ pc = "idle"
          /\ screen = << [kind |-> "error", what |-> "missing_key"] >>

\* C5 witness: a click with a blank key field and a blank environment value.
C5_Witness ==
    /\ run_btn
    /\ key_input = <<" ">>
    /\ environ = <<" ">>
    /\ screen = << [kind |-> "error", what |-> "missing_key"] >>

\* a name that is non-empty, with no whitespace and no quote at either end
IsCleanName(n) ==
    /\ n # <<>>
    /\ Head(n) \notin WhiteSpace \cup QUOTE_CLEAN_CHARS
    /\ n[Len(n)] \notin WhiteSpace \cup QUOTE_CLEAN_CHARS

\* C6: the restaurant name passed to a downstream prompt, and the name the
\* download file name is made of, is non-empty and has no whitespace and no
\* quote character at either end.
C6_CleanNameUsed ==
    /\ \A i \in 1..Len(calls) :
          calls[i].template \in Downstream =>
              IsCleanName(calls[i].params.restaurant_name)
    /\ Shows("download_button") => IsCleanName(locals.rest_name)

\* C10: the calls of an attempt are issued one at a time in the order name,
\* menu, drinks, slogan, description, each after the one before it returned
\* successfully and each template once; validation runs after exactly five
\* successful calls.
C10_FixedOrder ==
    /\ Len(calls) <= 5
    /\ \A i \in 1..Len(calls) :
          /\ calls[i].template = Templates[i]
          /\ i < Len(calls) => calls[i].status = "ok"
    /\ (pc = "validate" \/ locals # <<>>) =>
          (Len(calls) = 5 /\ AllFiveSucceeded)
    /\ (AttemptEnded /\ \A i \in 1..Len(calls) : calls[i].status = "ok") =>
          (Len(calls) = 5 /\ locals # <<>>)

\* C10 witness: the fifth call is in flight, the four before it returned.
C10_Witness ==
    /\ Len(calls) = 5
    /\ calls[5].status = "pending"
    /\ \A i \in 1..4 : calls[i].status = "ok"

====
